---- MODULE Spec2Model ----
(***************************************************************************)
(* A model of ATM.py: the accounts file (User.load_users / User.save), the *)
(* session logic of BankService, and the page flow of ATMApp.              *)
(*                                                                         *)
(* A Python str is modelled as a sequence of characters, each character a  *)
(* one-element TLA+ string; the two non-ASCII characters the model uses    *)
(* are written by their code points.                                       *)
(***************************************************************************)
EXTENDS Integers, Sequences, FiniteSets, TLC

\* ------------------------------------------------------------------ bounds

\* Initial balances range over 0..MaxBalance units.
MaxBalance == 2

\* load_users is not run on a file holding a field longer than this: the
\* quoting of User.save can lengthen a field at every save/load cycle.
MaxField == 4

\* The smallest preset amount of the withdraw page; balances and amounts of
\* the model are multiples of it.
Unit == 500000

\* QInputDialog.getInt(min=..., max=...) of the custom amount dialog.
CustomMin == 10000
CustomMax == 10000000

\* ------------------------------------------------------------- characters

ArabicThree == "U+0663"       \* ARABIC-INDIC DIGIT THREE: category Nd
SuperTwo == "U+00B2"          \* SUPERSCRIPT TWO: category No, Numeric_Type=Digit
Quote == "\""
Comma == ","

AsciiDigits == {"0", "1", "2", "3", "4", "5", "6", "7", "8", "9"}

\* The characters str.isdecimal accepts, which are those int() reads as digits.
DecimalChars == AsciiDigits \cup {ArabicThree}

\* The characters str.isdigit accepts: the decimal ones and the other digits.
DigitChars == DecimalChars \cup {SuperTwo}

\* The characters str.strip and int() treat as white space.
Whitespace == {" ", "\t", "\n", "\r"}

DigitValue(c) ==
    CASE c = "0" -> 0 [] c = "1" -> 1 [] c = "2" -> 2 [] c = "3" -> 3
      [] c = "4" -> 4 [] c = "5" -> 5 [] c = "6" -> 6 [] c = "7" -> 7
      [] c = "8" -> 8 [] c = "9" -> 9 [] c = ArabicThree -> 3

DigitChar(d) ==
    CASE d = 0 -> "0" [] d = 1 -> "1" [] d = 2 -> "2" [] d = 3 -> "3"
      [] d = 4 -> "4" [] d = 5 -> "5" [] d = 6 -> "6" [] d = 7 -> "7"
      [] d = 8 -> "8" [] d = 9 -> "9"

\* ---------------------------------------------------------------- strings

\* str.isdigit(): non-empty and every character a digit character.
isdigit(s) == Len(s) > 0 /\ \A i \in 1..Len(s) : s[i] \in DigitChars

\* s.replace(c, ""): s without the occurrences of c.
RECURSIVE Remove(_, _)
Remove(s, c) ==
    IF s = <<>> THEN <<>>
    ELSE IF Head(s) = c THEN Remove(Tail(s), c)
    ELSE <<Head(s)>> \o Remove(Tail(s), c)

\* s.split(c): the fields between the occurrences of c, always at least one.
RECURSIVE split(_, _)
split(s, c) ==
    IF \A i \in 1..Len(s) : s[i] # c THEN <<s>>
    ELSE LET i == CHOOSE k \in 1..Len(s) :
                     s[k] = c /\ \A j \in 1..(k - 1) : s[j] # c
         IN  <<SubSeq(s, 1, i - 1)>> \o split(SubSeq(s, i + 1, Len(s)), c)

\* The white space int() skips on both sides of the literal.
RECURSIVE StripLeft(_)
StripLeft(s) ==
    IF s # <<>> /\ Head(s) \in Whitespace THEN StripLeft(Tail(s)) ELSE s

RECURSIVE StripRight(_)
StripRight(s) ==
    IF s # <<>> /\ s[Len(s)] \in Whitespace
    THEN StripRight(SubSeq(s, 1, Len(s) - 1)) ELSE s

Strip(s) == StripRight(StripLeft(s))

\* The digits of an integer literal, after its optional sign.
Unsigned(t) == IF t # <<>> /\ Head(t) \in {"+", "-"} THEN Tail(t) ELSE t

RECURSIVE DigitsValue(_)
DigitsValue(d) ==
    IF d = <<>> THEN 0
    ELSE 10 * DigitsValue(SubSeq(d, 1, Len(d) - 1)) + DigitValue(d[Len(d)])

\* int(s): ok is FALSE where Python raises ValueError.
int(s) ==
    LET t == Strip(s)
        d == Unsigned(t)
        ok == d # <<>> /\ \A i \in 1..Len(d) : d[i] \in DecimalChars
    IN  [ok |-> ok,
         val |-> IF ~ok THEN 0
                 ELSE IF Head(t) = "-" THEN 0 - DigitsValue(d)
                 ELSE DigitsValue(d)]

\* str(n) of an int: its decimal digits, with a minus sign when negative.
RECURSIVE NatStr(_)
NatStr(n) ==
    IF n < 10 THEN <<DigitChar(n)>>
    ELSE NatStr(n \div 10) \o <<DigitChar(n % 10)>>

str(n) == IF n < 0 THEN <<"-">> \o NatStr(0 - n) ELSE NatStr(n)

\* ------------------------------------------------------- the accounts file

\* open(file_name, 'r') reads with universal newlines: "\r\n" and a lone
\* "\r" both reach the program as "\n".
RECURSIVE Translate(_)
Translate(t) ==
    IF t = <<>> THEN <<>>
    ELSE IF Head(t) = "\r"
         THEN <<"\n">> \o Translate(IF Len(t) > 1 /\ t[2] = "\n"
                                    THEN SubSeq(t, 3, Len(t)) ELSE Tail(t))
    ELSE <<Head(t)>> \o Translate(Tail(t))

\* `for line in f`: the lines of the text, each with its "\n" (the last line
\* may have none).
RECURSIVE Lines(_)
Lines(t) ==
    IF t = <<>> THEN <<>>
    ELSE IF \A i \in 1..Len(t) : t[i] # "\n" THEN <<t>>
    ELSE LET i == CHOOSE k \in 1..Len(t) :
                     t[k] = "\n" /\ \A j \in 1..(k - 1) : t[j] # "\n"
         IN  <<SubSeq(t, 1, i)>> \o Lines(SubSeq(t, i + 1, Len(t)))

NoUser == [card_number |-> <<>>, password |-> <<>>, balance |-> 0]

\* One turn of the loop of load_users: the unpacking of line.split(',') and
\* int(balance); ok is FALSE where either raises ValueError.
ParseLine(line) ==
    LET f == split(line, Comma)
    IN  IF Len(f) # 3 THEN [ok |-> FALSE, user |-> NoUser]
        ELSE LET b == int(f[3])
             IN  IF ~b.ok THEN [ok |-> FALSE, user |-> NoUser]
                 ELSE [ok |-> TRUE,
                       user |-> [card_number |-> f[1], password |-> f[2],
                                 balance |-> b.val]]

\* User.load_users on a file holding `text`: the list of users, or ok = FALSE
\* where the call raises.
load_users(text) ==
    LET ls == Lines(Translate(text))
        parsed == [i \in 1..Len(ls) |-> ParseLine(ls[i])]
    IN  IF \A i \in 1..Len(ls) : parsed[i].ok
        THEN [ok |-> TRUE, users |-> [i \in 1..Len(ls) |-> parsed[i].user]]
        ELSE [ok |-> FALSE, users |-> <<>>]

\* csv.writer, default dialect (QUOTE_MINIMAL, doublequote): a field holding
\* the delimiter, the quote character or a character of the line terminator
\* is written between quotes, with every quote in it doubled.
NeedsQuote(s) == \E i \in 1..Len(s) : s[i] \in {Comma, Quote, "\r", "\n"}

RECURSIVE DoubleQuotes(_)
DoubleQuotes(s) ==
    IF s = <<>> THEN <<>>
    ELSE IF Head(s) = Quote THEN <<Quote, Quote>> \o DoubleQuotes(Tail(s))
    ELSE <<Head(s)>> \o DoubleQuotes(Tail(s))

CsvField(s) ==
    IF NeedsQuote(s) THEN <<Quote>> \o DoubleQuotes(s) \o <<Quote>> ELSE s

\* writer.writerows: one row per user, ended by the dialect's "\r\n", which
\* open(..., newline='') writes untranslated.
CsvRow(u) ==
    CsvField(u.card_number) \o <<Comma>> \o CsvField(u.password)
        \o <<Comma>> \o str(u.balance) \o <<"\r", "\n">>

RECURSIVE CsvRows(_)
CsvRows(us) == IF us = <<>> THEN <<>> ELSE CsvRow(Head(us)) \o CsvRows(Tail(us))

\* User.save: the text the file holds afterwards (mode 'w' truncates).
save(us) == CsvRows(us)

\* ------------------------------------------------------------------ state

VARIABLES
    users,          \* ATMApp.users / BankService._users: the list of User
    current_user,   \* BankService._current_user: a position of users, or None
    file,           \* the text of users.csv
    page,           \* the current widget of ATMApp.stacked_widget
    status,         \* "running", or "crashed" once load_users has raised
    last            \* the call or UI event just handled: what was called,
                    \* with what, what it returned, how often it saved

vars == <<users, current_user, file, page, status, last>>

\* Python's None for _current_user; a set user is its position in users.
None == 0

Log(op, args, ret, saves) ==
    [op |-> op, args |-> args, ret |-> ret, saves |-> saves]

\* ------------------------------------------------------------ BankService

\* What a method of BankService leaves behind: its return value, the list of
\* users and the session's user.
Outcome(ret, us, cu) == [ret |-> ret, users |-> us, current_user |-> cu]

\* The loop of authenticate: the first position whose password equals the
\* one given, or None when the loop ends without a match.
FirstMatch(password) ==
    IF \E i \in 1..Len(users) : users[i].password = password
    THEN CHOOSE i \in 1..Len(users) :
             /\ users[i].password = password
             /\ \A j \in 1..(i - 1) : users[j].password # password
    ELSE None

\* authenticate with the `return` of its loop lost: the loop runs on and the
\* last match wins.
authenticate_last_match(password) ==
    LET m == IF \E i \in 1..Len(users) : users[i].password = password
             THEN CHOOSE i \in 1..Len(users) :
                      /\ users[i].password = password
                      /\ \A j \in (i + 1)..Len(users) :
                             users[j].password # password
             ELSE None
    IN  IF m # None THEN Outcome(m, users, m)
        ELSE Outcome(None, users, current_user)

\* BankService.authenticate: returns the user found (its position), or None.
authenticate(password) ==
    LET m == FirstMatch(password)
    IN  IF m # None THEN Outcome(m, users, m)
        ELSE Outcome(None, users, current_user)

\* change_password without the comparison of current_pass.
change_password_unchecked(current_pass, new_pass) ==
    IF current_user = None
    THEN Outcome(FALSE, users, current_user)
    ELSE Outcome(TRUE,
                 [users EXCEPT ![current_user].password = new_pass],
                 current_user)

\* change_password assigning to a copy of the user: the list keeps the old
\* password.
change_password_on_copy(current_pass, new_pass) ==
    IF current_user = None \/ users[current_user].password # current_pass
    THEN Outcome(FALSE, users, current_user)
    ELSE Outcome(TRUE, users, current_user)

\* BankService.change_password
change_password(current_pass, new_pass) ==
    IF current_user = None \/ users[current_user].password # current_pass
    THEN Outcome(FALSE, users, current_user)
    ELSE Outcome(TRUE,
                 [users EXCEPT ![current_user].password = new_pass],
                 current_user)

\* withdraw without the test of the amount's sign.
withdraw_any_sign(amount) ==
    IF current_user = None \/ users[current_user].balance < amount
    THEN Outcome(FALSE, users, current_user)
    ELSE Outcome(TRUE,
                 [users EXCEPT ![current_user].balance = @ - amount],
                 current_user)

\* BankService.withdraw
withdraw(amount) ==
    IF current_user = None \/ amount <= 0
           \/ users[current_user].balance < amount
    THEN Outcome(FALSE, users, current_user)
    ELSE Outcome(TRUE,
                 [users EXCEPT ![current_user].balance = @ - amount],
                 current_user)

\* transfer without the test of the balance.
transfer_overdraw(amount, dest_card) ==
    IF current_user = None \/ amount <= 0 \/ ~isdigit(dest_card)
    THEN Outcome(FALSE, users, current_user)
    ELSE Outcome(TRUE,
                 [users EXCEPT ![current_user].balance = @ - amount],
                 current_user)

\* BankService.transfer: dest_card is only tested with isdigit; no account
\* is looked up and none is credited.
transfer(amount, dest_card) ==
    IF current_user = None \/ amount <= 0 \/ ~isdigit(dest_card)
           \/ users[current_user].balance < amount
    THEN Outcome(FALSE, users, current_user)
    ELSE Outcome(TRUE,
                 [users EXCEPT ![current_user].balance = @ - amount],
                 current_user)

\* get_balance falling back to the first user when no session user is set.
get_balance_first_user ==
    Outcome(IF current_user # None THEN users[current_user].balance
            ELSE users[1].balance,
            users, current_user)

\* BankService.get_balance
get_balance ==
    Outcome(IF current_user # None THEN users[current_user].balance ELSE 0,
            users, current_user)

\* ----------------------------------------------------- inputs of the model

\* The card numbers of the two accounts of the model's store.
AccountCards == << <<"1">>, <<"2">> >>

\* Passwords a store starts with, and passwords a caller passes.
InitPasswords == {<<>>, <<"a">>, <<Quote>>}
Passwords == InitPasswords \cup {<<Comma>>}

\* Amounts a caller passes: negative, zero, and up to one unit above any
\* balance of the model.
Amounts == {k * Unit : k \in (0 - 1)..(MaxBalance + 1)}

\* Balances a list of users handed to BankService starts with.
InitBalances == {k * Unit : k \in (0 - 1)..MaxBalance}

\* Destination cards a caller passes: empty, the card of an account, one with
\* a letter, a non-ASCII decimal digit, a digit that is not decimal.
DestCards == {<<>>, <<"2">>, <<"2", "a">>, <<ArabicThree>>, <<SuperTwo>>}

\* ------------------------------------- BankService called directly (Spec)

\* BankService.__init__ over any list of two users: no session user. No file
\* and no page takes part in this specification.
Init ==
    /\ \E pw \in [1..Len(AccountCards) -> InitPasswords],
          bal \in [1..Len(AccountCards) -> InitBalances] :
           users = [i \in 1..Len(AccountCards) |->
                       [card_number |-> AccountCards[i], password |-> pw[i],
                        balance |-> bal[i]]]
    /\ current_user = None
    /\ file = <<>>
    /\ page = "language"
    /\ status = "running"
    /\ last = Log("init", <<>>, None, 0)

\* A call of a method of BankService with the outcome r.
Call(op, args, r) ==
    /\ users' = r.users
    /\ current_user' = r.current_user
    /\ last' = Log(op, args, r.ret, 0)
    /\ UNCHANGED <<file, page, status>>

CallAuthenticate ==
    \E p \in Passwords : Call("authenticate", <<p>>, authenticate(p))

CallChangePassword ==
    \E cur \in Passwords, new \in Passwords :
        Call("change_password", <<cur, new>>, change_password(cur, new))

CallWithdraw ==
    \E amount \in Amounts : Call("withdraw", <<amount>>, withdraw(amount))

CallTransfer ==
    \E amount \in Amounts, card \in DestCards :
        Call("transfer", <<amount, card>>, transfer(amount, card))

CallGetBalance == Call("get_balance", <<>>, get_balance)

Next ==
    \/ CallAuthenticate
    \/ CallChangePassword
    \/ CallWithdraw
    \/ CallTransfer
    \/ CallGetBalance

Spec == Init /\ [][Next]_vars

\* ------------------------------------------------- claims on BankService

\* In the formulas below a step's unprimed variables are the state the call
\* was made in, and last' is the call: its arguments and what it returned.

SessionSet == current_user # None
B == users[current_user].balance

\* C1: withdraw(amount) returns true iff a session account is set and
\* 0 < amount <= B, B the account's balance before the call; on true the
\* session account's balance is exactly B - amount; on false no account and
\* no session binding changes.
C1_WithdrawContract ==
    [][last'.op = "withdraw" =>
        LET amount == last'.args[1]
            ok == SessionSet /\ 0 < amount /\ amount <= B
        IN  /\ last'.ret = ok
            /\ ok => users'[current_user].balance = B - amount
            /\ ~ok => users' = users /\ current_user' = current_user]_vars

\* A withdrawal of the whole balance has succeeded.
C1_Witness ==
    /\ last.op = "withdraw" /\ last.ret
    /\ last.args[1] = MaxBalance * Unit
    /\ users[current_user].balance = 0

\* "card consists only of decimal digit characters", read in the claim's
\* favour: a non-empty string of decimal digits, ASCII or not.
OnlyDecimalDigits(card) ==
    card # <<>> /\ \A i \in 1..Len(card) : card[i] \in DecimalChars

\* C2: transfer(amount, card) returns true iff a session account is set,
\* 0 < amount <= B and card consists only of decimal digit characters; on
\* true exactly amount is debited from the session account and every other
\* account is unchanged.
C2_TransferContract ==
    [][last'.op = "transfer" =>
        LET amount == last'.args[1]
            card == last'.args[2]
            ok == SessionSet /\ 0 < amount /\ amount <= B
                      /\ OnlyDecimalDigits(card)
        IN  /\ last'.ret = ok
            /\ ok => /\ users'[current_user].balance = B - amount
                     /\ \A i \in 1..Len(users) :
                            i # current_user => users'[i] = users[i]]_vars

NonNegative(us) == \A i \in 1..Len(us) : us[i].balance >= 0

\* C3: from a store in which every balance is non-negative, every balance
\* is >= 0 in every state any sequence of calls reaches. Stated as the step
\* that carries it: no call leads from non-negative balances to a negative
\* one (the stores of Init include negative balances, which load_users
\* accepts).
C3_BalanceNonNegative ==
    [][NonNegative(users) => NonNegative(users')]_vars

\* Both accounts have been emptied, the second by a transfer, and no balance
\* is negative.
C3_Witness ==
    /\ last.op = "transfer" /\ last.ret
    /\ last.args[1] > 0
    /\ \A i \in 1..Len(users) : users[i].balance = 0

\* C4: authenticate(p) returns and binds the session to the account with the
\* lowest position whose password equals p; without a match it returns the
\* failure value and leaves the session binding and every account unchanged.
C4_AuthenticateFirstMatch ==
    [][last'.op = "authenticate" =>
        LET p == last'.args[1]
            matches == {i \in 1..Len(users) : users[i].password = p}
        IN  /\ users' = users
            /\ IF matches # {}
               THEN /\ \A i \in matches : last'.ret <= i
                    /\ last'.ret \in matches
                    /\ current_user' = last'.ret
               ELSE /\ last'.ret = None
                    /\ current_user' = current_user]_vars

\* Two accounts share a password and authenticate has bound the first.
C4_Witness ==
    /\ last.op = "authenticate"
    /\ users[1].password = users[2].password
    /\ last.args[1] = users[2].password
    /\ last.ret = 1 /\ current_user = 1

\* C5: change_password(cur, new) returns true iff a session account is set
\* and cur equals its stored password; on true that account's password is
\* exactly new and nothing else changes; on false nothing changes.
C5_ChangePasswordContract ==
    [][last'.op = "change_password" =>
        LET cur == last'.args[1]
            new == last'.args[2]
            ok == SessionSet /\ users[current_user].password = cur
        IN  /\ last'.ret = ok
            /\ current_user' = current_user
            /\ ok => users' = [users EXCEPT ![current_user].password = new]
            /\ ~ok => users' = users]_vars

\* The empty string has been accepted as the new password.
C5_Witness ==
    /\ last.op = "change_password" /\ last.ret
    /\ last.args[1] # <<>> /\ last.args[2] = <<>>
    /\ users[current_user].password = <<>>

\* A successful change_password(cur, new) was the call before this one.
AfterChange == last.op = "change_password" /\ last.ret

\* C6, as claimed: after a successful change_password(cur, new) on session
\* account A, a following authenticate(new) succeeds and a following
\* authenticate(cur) does not return A, for all cur and new.
C6_AsClaimed ==
    [][(AfterChange /\ last'.op = "authenticate") =>
        /\ last'.args[1] = last.args[2] => last'.ret # None
        /\ last'.args[1] = last.args[1] => last'.ret # current_user]_vars

\* C6, amended: the same, the second half for new # cur only (with new = cur
\* the account keeps the password cur).
C6_OldPasswordRetired ==
    [][(AfterChange /\ last'.op = "authenticate") =>
        /\ last'.args[1] = last.args[2] => last'.ret # None
        /\ (last'.args[1] = last.args[1] /\ last.args[1] # last.args[2])
               => last'.ret # current_user]_vars

\* authenticate has matched an account by a password that only a successful
\* change_password can have given it (no store starts with it).
C6_Witness ==
    /\ last.op = "authenticate"
    /\ last.args[1] = <<Comma>>
    /\ last.ret # None /\ users[last.ret].password = <<Comma>>

\* C10: get_balance returns 0 when no session account is set, and the current
\* balance of the session account otherwise; it changes no state.
C10_GetBalance ==
    [][last'.op = "get_balance" =>
        /\ last'.ret = (IF SessionSet THEN B ELSE 0)
        /\ users' = users /\ current_user' = current_user]_vars

\* get_balance has returned 0 without a session while accounts hold money.
C10_Witness ==
    /\ last.op = "get_balance" /\ last.ret = 0
    /\ ~SessionSet
    /\ \A i \in 1..Len(users) : users[i].balance > 0

\* ------------------------------------------------- the pages (SpecUI)

\* users.csv as the program finds it when it starts: one line
\* "card,password,balance" per account, each ended by "\n".
RECURSIVE FileText(_)
FileText(rows) ==
    IF rows = <<>> THEN <<>>
    ELSE Head(rows)[1] \o <<Comma>> \o Head(rows)[2] \o <<Comma>>
             \o Head(rows)[3] \o <<"\n">> \o FileText(Tail(rows))

\* Passwords the accounts start with and the operator types; the operator
\* also types one that no account starts with.
UiPasswords == {<<"a">>, <<Quote>>}
TypedPasswords == UiPasswords \cup {<<>>}

\* The preset buttons of WithdrawPage.setup_ui.
PresetAmounts ==
    { <<"5", "0", "0", ",", "0", "0", "0">>,
      <<"1", ",", "0", "0", "0", ",", "0", "0", "0">>,
      <<"1", ",", "5", "0", "0", ",", "0", "0", "0">>,
      <<"2", ",", "0", "0", "0", ",", "0", "0", "0">> }

\* Values the custom amount dialog returns: within its range, and at most
\* one unit above any balance of the model.
CustomAmounts ==
    {a \in Amounts : CustomMin <= a /\ a <= CustomMax}

\* Texts typed into the amount field of the transfer page: a unit, zero,
\* and one that is no integer.
TypedAmounts == {str(Unit), <<"0">>, <<"a">>}

\* Cards typed into the card field of the transfer page.
TypedCards == {<<"2">>, <<"a">>}

\* ATMApp.__init__: load_users('users.csv'), BankService over the list, the
\* language page shown.
InitUI ==
    /\ \E pw \in [1..Len(AccountCards) -> UiPasswords],
          bal \in [1..Len(AccountCards) -> 0..MaxBalance] :
           file = FileText([i \in 1..Len(AccountCards) |->
                               <<AccountCards[i], pw[i], str(bal[i] * Unit)>>])
    /\ load_users(file).ok
    /\ users = load_users(file).users
    /\ current_user = None
    /\ page = "language"
    /\ status = "running"
    /\ last = Log("init", <<>>, None, 0)

\* A handler that has called the method of BankService with outcome r and
\* then shows page p.
Handled(op, args, r, p) ==
    /\ users' = r.users
    /\ current_user' = r.current_user
    /\ page' = p
    /\ last' = Log(op, args, r.ret, 0)
    /\ UNCHANGED <<file, status>>

\* A handler that calls nothing of BankService and then shows page p.
Shown(op, args, p) == Handled(op, args, Outcome(None, users, current_user), p)

\* LanguageSelectionPage.select_language -> ATMApp.handle_language: the pages
\* are created anew over the same BankService and the login page is shown.
\* (The language chosen only selects the texts shown.)
handle_language ==
    /\ page = "language"
    /\ \E language \in {"fa", "en"} :
           Shown("handle_language", <<language>>, "login")

\* LoginPage.authenticate emitting "login_success" whatever authenticate
\* returned.
LoginPage_authenticate_unchecked ==
    /\ page = "login"
    /\ \E password \in TypedPasswords :
           Handled("LoginPage.authenticate", <<password>>,
                   authenticate(password), "menu")

\* LoginPage.authenticate: on a match "login_success" is emitted, which shows
\* the menu; otherwise a message box, and the login page stays.
LoginPage_authenticate ==
    /\ page = "login"
    /\ \E password \in TypedPasswords :
           LET r == authenticate(password)
           IN  Handled("LoginPage.authenticate", <<password>>, r,
                       IF r.ret # None THEN "menu" ELSE "login")

\* ATMApp.handle_menu_selection for the four operation buttons; "balance"
\* runs BalancePage.update_balance, which calls get_balance.
handle_menu_selection ==
    /\ page = "menu"
    /\ \E action \in {"withdraw", "transfer", "balance", "change_password"} :
           IF action = "balance"
           THEN Handled("handle_menu_selection", <<action>>, get_balance,
                        action)
           ELSE Shown("handle_menu_selection", <<action>>, action)

\* ATMApp.handle_menu_selection("exit"): only the language page is shown.
handle_menu_exit ==
    /\ page = "menu"
    /\ Shown("handle_menu_selection", <<"exit">>, "language")

\* WithdrawPage.process_withdrawal, from a preset button: a success is
\* emitted to show_result, a failure shows a message box.
process_withdrawal ==
    /\ page = "withdraw"
    /\ \E amount_str \in PresetAmounts :
           LET r == withdraw(int(Remove(amount_str, Comma)).val)
           IN  Handled("process_withdrawal", <<amount_str>>, r,
                       IF r.ret THEN "result" ELSE "withdraw")

\* WithdrawPage.request_custom_amount: the dialog returns (amount, ok).
request_custom_amount ==
    /\ page = "withdraw"
    /\ \E amount \in CustomAmounts, ok \in BOOLEAN :
           IF ok
           THEN LET r == withdraw(amount)
                IN  Handled("request_custom_amount", <<amount, ok>>, r,
                            IF r.ret THEN "result" ELSE "withdraw")
           ELSE Shown("request_custom_amount", <<amount, ok>>, "withdraw")

\* TransferPage.process_transfer: int() of the amount field may raise
\* ValueError, which is caught and shown as a message.
process_transfer ==
    /\ page = "transfer"
    /\ \E text \in TypedAmounts, dest_card \in TypedCards :
           LET amount == int(text)
           IN  IF ~amount.ok
               THEN Shown("process_transfer", <<text, dest_card>>, "transfer")
               ELSE LET r == transfer(amount.val, dest_card)
                    IN  Handled("process_transfer", <<text, dest_card>>, r,
                                IF r.ret THEN "result" ELSE "transfer")

\* ChangePasswordPage.change_password
ChangePasswordPage_change_password ==
    /\ page = "change_password"
    /\ \E current_pass \in TypedPasswords, new_pass \in UiPasswords :
           LET r == change_password(current_pass, new_pass)
           IN  Handled("ChangePasswordPage.change_password",
                       <<current_pass, new_pass>>, r,
                       IF r.ret THEN "result" ELSE "change_password")

\* back_requested of the four operation pages: the menu is shown.
back_requested ==
    /\ page \in {"withdraw", "transfer", "balance", "change_password"}
    /\ Shown("back_requested", <<page>>, "menu")

\* ATMApp.handle_result_action("new_operation")
handle_result_new_operation ==
    /\ page = "result"
    /\ Shown("handle_result_action", <<"new_operation">>, "menu")

\* ATMApp.handle_result_action("exit"): User.save, then the language page.
handle_result_exit ==
    /\ page = "result"
    /\ file' = save(users)
    /\ page' = "language"
    /\ last' = Log("handle_result_action", <<"exit">>, None, 1)
    /\ UNCHANGED <<users, current_user, status>>

NextUI ==
    \/ handle_language
    \/ LoginPage_authenticate
    \/ handle_menu_selection
    \/ handle_menu_exit
    \/ process_withdrawal
    \/ request_custom_amount
    \/ process_transfer
    \/ ChangePasswordPage_change_password
    \/ back_requested
    \/ handle_result_new_operation
    \/ handle_result_exit

SpecUI == InitUI /\ [][NextUI]_vars

\* ---------------------------------------------------- claims on the pages

\* The handler just run was an exit: Exit on the menu page or on the result
\* page.
ExitTaken ==
    /\ last.op \in {"handle_menu_selection", "handle_result_action"}
    /\ last.args = <<"exit">>

\* C7: whenever the operator takes an exit action the session becomes
\* Unauthenticated: right afterwards current_user is unset, get_balance
\* returns 0, and withdraw, transfer and change_password fail.
C7_SessionEndsAtExit ==
    ExitTaken =>
        /\ current_user = None
        /\ get_balance.ret = 0
        /\ \A amount \in Amounts : ~withdraw(amount).ret
        /\ \A amount \in Amounts, card \in DestCards :
               ~transfer(amount, card).ret
        /\ \A cur \in Passwords, new \in Passwords :
               ~change_password(cur, new).ret

\* C8: on every path by which an authenticated operator leaves the session,
\* Exit on the menu page as well as Exit on the result page, User.save is
\* called exactly once.
C8_SaveAtEveryExit == ExitTaken => last.saves = 1

\* ------------------------------------- the accounts file alone (SpecStore)

\* Card numbers and passwords a well-formed file holds: no comma, no line
\* end; empty, plain, and with a double quote.
FileStrings == {<<>>, <<"a">>, <<Quote>>, <<"a", Quote>>}

\* Balance fields int() accepts: plain, signed, padded, with a leading zero.
FileBalances ==
    {str(k * Unit) : k \in 0..MaxBalance}
        \cup {<<"+", "7">>, <<"-", "7">>, <<" ", "7">>, <<"0", "7">>}

\* The program starting on a well-formed users.csv of one or two lines: the
\* list is what load_users returns.
InitStore ==
    /\ \E card \in FileStrings, passwd \in FileStrings,
          balance \in FileBalances :
           \/ file = FileText(<< <<card, passwd, balance>> >>)
           \/ \E card2 \in FileStrings :
                  file = FileText(<< <<card, passwd, balance>>,
                                     <<card2, <<"b">>, <<"0">>>> >>)
    /\ load_users(file).ok
    /\ users = load_users(file).users
    /\ current_user = None
    /\ page = "language"
    /\ status = "running"
    /\ last = Log("init", <<>>, None, 0)

\* User.save('users.csv', users). Not run once a field has outgrown MaxField.
StoreSave ==
    /\ status = "running"
    /\ \A i \in 1..Len(users) :
           /\ Len(users[i].card_number) <= MaxField
           /\ Len(users[i].password) <= MaxField
    /\ file' = save(users)
    /\ last' = Log("save", <<>>, None, 1)
    /\ UNCHANGED <<users, current_user, page, status>>

\* The program started again: User.load_users('users.csv'); a ValueError is
\* not caught and ends the program.
StoreLoad ==
    /\ status = "running"
    /\ LET r == load_users(file)
       IN  /\ users' = r.users
           /\ status' = IF r.ok THEN "running" ELSE "crashed"
           /\ last' = Log("load_users", <<>>, r.ok, 0)
    /\ current_user' = None
    /\ page' = "language"
    /\ UNCHANGED file

NextStore == StoreSave \/ StoreLoad

SpecStore == InitStore /\ [][NextStore]_vars

\* C9: for every well-formed accounts file, load_users, save, load_users
\* yields the triples of the first load, in the same order, for all card
\* numbers and passwords without a comma. (Nothing changes the list in
\* SpecStore, so before a load it holds what the load before returned.)
C9_RoundTrip ==
    [][(last.op = "save" /\ last'.op = "load_users") =>
        last'.ret /\ users' = users]_vars

\* ------------------- one run of BankService, then save and a fresh load
\* ------------------- (SpecDurable)

\* A list of users as load_users returns it from a file written without
\* quotes and without negative balances, and BankService over it.
InitDurable ==
    /\ Init
    /\ \A i \in 1..Len(users) :
           users[i].password # <<Quote>> /\ users[i].balance >= 0

\* The run has ended: the list has been saved, or saved and loaded again.
RunEnded == last.op \in {"save", "load_users"}

\* A call of BankService during the run.
DurableCall == ~RunEnded /\ Next

\* User.save of the list at the end of the run.
DurableSave == ~RunEnded /\ StoreSave

\* The fresh User.load_users that follows the save.
DurableLoad == last.op = "save" /\ StoreLoad

NextDurable == DurableCall \/ DurableSave \/ DurableLoad

SpecDurable == InitDurable /\ [][NextDurable]_vars

Triples(us) ==
    [i \in 1..Len(us) |->
        <<us[i].card_number, us[i].password, us[i].balance>>]

\* C11: after any sequence of authenticate, withdraw, transfer and
\* change_password calls, with any new password change_password accepts, a
\* User.save of the list followed by a fresh User.load_users succeeds and
\* returns exactly the triples the list held at the save, in the same order.
C11_Durability ==
    [][(last.op = "save" /\ last'.op = "load_users") =>
        /\ status' = "running"
        /\ Triples(users') = Triples(users)]_vars

\* --------------- BankService over a store of distinct passwords
\* --------------- (SpecDistinct)

PairwiseDistinct(us) ==
    \A i \in 1..Len(us), j \in 1..Len(us) :
        i # j => us[i].password # us[j].password

\* BankService.__init__ over a list in which no two users share a password.
InitDistinct == Init /\ PairwiseDistinct(users)

SpecDistinct == InitDistinct /\ [][Next]_vars

\* The call before this one was a successful change_password(cur, new) of
\* the session account, and this call is authenticate(new).
AuthenticateNewAfterChange ==
    AfterChange /\ last'.op = "authenticate" /\ last'.args[1] = last.args[2]

\* C12, as claimed: from a store of pairwise distinct passwords, after a
\* successful change_password(cur, new) by account A a following
\* authenticate(new) binds the session to A itself.
C12_AsClaimed ==
    [][AuthenticateNewAfterChange =>
        (last'.ret = current_user /\ current_user' = current_user)]_vars

\* C12, amended: the following authenticate(new) binds the session to A
\* exactly when no account before A in the store holds the password new;
\* otherwise it binds the first account that does (change_password does not
\* keep the passwords distinct).
C12_BindsFirstHolder ==
    [][AuthenticateNewAfterChange =>
        LET new == last.args[2]
            earlier == {j \in 1..(current_user - 1) :
                            users[j].password = new}
        IN  /\ current_user' = last'.ret
            /\ earlier = {} => last'.ret = current_user
            /\ earlier # {} =>
                   /\ last'.ret \in earlier
                   /\ \A j \in earlier : last'.ret <= j]_vars

\* The second account has been given a password by change_password that the
\* first does not hold, and authenticate with it has bound the second.
C12_Witness ==
    /\ last.op = "authenticate"
    /\ last.args[1] = <<Comma>>
    /\ last.ret = 2 /\ current_user = 2
    /\ users[2].password = <<Comma>>
    /\ users[1].password # <<Comma>>

\* ------------------------------------------------ the login gate (SpecUI)

\* The menu page and the pages reached from it.
SessionPages ==
    {"menu", "withdraw", "transfer", "balance", "change_password", "result"}

\* This step handles a submit of the login page.
LoginSubmitted == last'.op = "LoginPage.authenticate"

\* C13: the menu page and the withdraw, transfer, balance and change-password
\* pages are shown only after a successful authenticate made after the most
\* recent exit, so every call the pages issue acts on the account that login
\* matched; a failed login never leaves the login page. As steps: the
\* session pages are entered only from the login page, by a submit whose
\* authenticate returned the account the session is then bound to; while a
\* session page is shown and another follows, the binding stays; an exit
\* leaves the session pages; a failed submit stays on the login page.
C13_LoginGate ==
    [][/\ (page \notin SessionPages /\ page' \in SessionPages) =>
              /\ page = "login" /\ page' = "menu"
              /\ LoginSubmitted
              /\ last'.ret # None
              /\ last'.ret = FirstMatch(last'.args[1])
              /\ current_user' = last'.ret
       /\ (page \in SessionPages /\ page' \in SessionPages) =>
              current_user' = current_user
       /\ (/\ last'.op \in {"handle_menu_selection", "handle_result_action"}
           /\ last'.args = <<"exit">>) => page' = "language"
       /\ (LoginSubmitted /\ last'.ret = None) =>
              /\ page = "login" /\ page' = "login"
              /\ current_user' = current_user]_vars

\* A withdrawal has succeeded in a session that began after an earlier
\* session's exit: the file holds a line end that only User.save writes, and
\* save runs only at an exit.
C13_Witness ==
    /\ last.op = "process_withdrawal" /\ last.ret
    /\ page = "result"
    /\ \E i \in 1..Len(file) : file[i] = "\r"

====
